---- MODULE Spec2Model ----
(***************************************************************************)
(* Model of the Lustre file metadata scanner                               *)
(* (src/dirscans/build_lustre_json.py): command line handling, the tree    *)
(* walk, the per-entry collectors, the result document and the exit        *)
(* status of one or more invocations against an unchanged directory tree.  *)
(*                                                                         *)
(* A path is a sequence of tokens: the separator "/" and file names.       *)
(*   "/root/a.txt" is <<"/", "root", "/", "a.txt">>, "root" is <<"root">>. *)
(*                                                                         *)
(* The module also holds the scanner's walk taken one directory at a time  *)
(* (SpecWalk), its run with hanging tools (SpecHung), and the programs     *)
(* around it: the assistant's SQL tool (SpecQuery), the chat window        *)
(* (SpecChat), the file browser's display (SpecBrowser) and the            *)
(* folder-size builder (SpecFolder).                                       *)
(***************************************************************************)
EXTENDS Integers, Sequences, FiniteSets, TLC

\* ---------------------------------------------------------------- bounds
\* Number of invocations of the scanner that one behaviour contains.
MaxRuns == 2

\* Number of symbolic links the kernel follows while it resolves one path; a
\* resolution that needs more fails with ELOOP (Linux follows 40).
MaxSymlinks == 2

\* Number of directories the two walks of one scan may visit in all.
MaxWalkSteps == 30

\* Largest number of rows a query of the assistant's SQL tool returns.
MaxRows == 102

\* Number of directories the user opens in the file browser.
MaxLoads == 3

\* Number of messages the user sends to the assistant, and the largest number
\* of tool calls one reply of the language model asks for.
MaxMessages == 2
MaxToolCalls == 2

\* Number of runs of the folder-size builder that one behaviour contains.
MaxBuilds == 3

\* ------------------------------------------------------------ file system
None == -1

SEP == "/"

\* The tokens of the model in the order Python compares them as strings.
TokenOrder == <<"/", "a.txt", "b.txt", "c.txt", "file.bin", "lnk", "nope", "root", "sub", "subsub">>

Rank(t) == CHOOSE k \in 1..Len(TokenOrder) : TokenOrder[k] = t

\* The directory tree on disk: /root/{a.txt, sub/{b.txt, subsub/c.txt}},
\* an optional symlink /root/lnk (to /root/sub, to /root itself, or dangling), and a
\* regular file /file.bin.
\* A node is identified by its name, which is unique in this tree; size is st_size
\* (a.txt holds 500 bytes, b.txt is empty, c.txt holds 200 MiB).
NodeIds == {"/", "root", "a.txt", "sub", "b.txt", "subsub", "c.txt", "lnk", "file.bin"}
NoNode == ""

NodeTable ==
  [n \in NodeIds |->
     CASE n = "/"        -> [parent |-> "/",      kind |-> "dir",  size |-> 4096, target |-> NoNode]
       [] n = "root"     -> [parent |-> "/",      kind |-> "dir",  size |-> 4096, target |-> NoNode]
       [] n = "a.txt"    -> [parent |-> "root",   kind |-> "file", size |-> 500, target |-> NoNode]
       [] n = "sub"      -> [parent |-> "root",   kind |-> "dir",  size |-> 4096, target |-> NoNode]
       [] n = "b.txt"    -> [parent |-> "sub",    kind |-> "file", size |-> 0, target |-> NoNode]
       [] n = "subsub"   -> [parent |-> "sub",    kind |-> "dir",  size |-> 4096, target |-> NoNode]
       [] n = "c.txt"    -> [parent |-> "subsub", kind |-> "file", size |-> 209715200, target |-> NoNode]
       [] n = "lnk"      -> [parent |-> "root",   kind |-> "link", size |-> 3, target |-> "sub"]
       [] n = "file.bin" -> [parent |-> "/",      kind |-> "file", size |-> 10, target |-> NoNode]]

\* The current working directory of every invocation is "/".
Cwd == "/"

VARIABLES
  walk,       \* os.walk seen one directory at a time: [phase, stack, entries, directories, steps]
  mcp,        \* the assistant's SQL tool: [results, response]
  display,    \* the file browser's display widget and its workers: [worker, workers,
              \*   queue, file_list, ignored]
  chat,       \* the assistant's chat window and its worker: [message_history,
              \*   input_enabled, worker, running, sent, next_id]
  folder,     \* the folder-size builder: [files, runs, clock, last]
  fsv,        \* the tree's variable part: [lnk, subReadable, rootReadable, tools]
  args,       \* the command line: [directory, recursive, max_depth, lustre, output, db, extra]
  osOrder,    \* the order in which the operating system lists names during this run
  now,        \* the wall clock
  runNo,      \* number of invocations started so far
  pc,         \* position of the running process ("idle" when none runs)
  exitCode,   \* exit status of the last finished process (None while one runs or before the first)
  stderr,     \* the messages the current (or last) process has printed to stderr
  entries,    \* scan_directory: the work list
  directories,\* scan_directory: the directory paths returned by collect_directory_tree
  results,    \* scan_directory: the result document being built
  cur,        \* scan_directory: file_metadata of the entry in flight
  col,        \* which collector of the entry in flight runs next
  outFile,    \* content of the file at args.output
  dbFile,     \* content of the database at args.db
  invoked,    \* the external commands the current (or last) process has run
  hist        \* record of the earlier invocations of the same logical scan

\* the state of the scanner process and of its files
scanner == <<fsv, args, osOrder, now, runNo, pc, exitCode, stderr, entries,
             directories, results, cur, col, outFile, dbFile, invoked, hist>>

\* the state a step of the scanner process leaves alone
others == <<walk, mcp, display, chat, folder>>

\* the state each of the other programs leaves alone
notWalk == <<scanner, mcp, display, chat, folder>>
notMcp == <<scanner, walk, display, chat, folder>>
notDisplay == <<scanner, walk, mcp, chat, folder>>
notChat == <<scanner, walk, mcp, display, folder>>
notFolder == <<scanner, walk, mcp, display, chat>>

vars == <<scanner, others>>

\* ------------------------------------------------------------ path helpers
Exists(n) == n # "lnk" \/ fsv.lnk # "absent"

IsAbs(p) == Len(p) > 0 /\ p[1] = SEP

\* os.path.join(a, name) for a that does not end in a separator
Join(a, name) == a \o <<SEP, name>>

\* os.path.abspath(p) with the working directory "/"
Abspath(p) == IF IsAbs(p) THEN p ELSE <<SEP>> \o p

NamesOf(p) == SelectSeq(p, LAMBDA t : t # SEP)

\* the entry called name in directory d
Child(d, name) ==
  IF name \in NodeIds /\ name # d /\ Exists(name) /\ NodeTable[name].parent = d
  THEN name ELSE NoNode

\* the node a symlink leads to (NoNode when it dangles)
Deref(n) ==
  IF n # NoNode /\ NodeTable[n].kind = "link"
  THEN (IF fsv.lnk \in NodeIds THEN fsv.lnk ELSE NoNode)
  ELSE n

\* a kernel that follows any number of symbolic links
TooManyLinks_Never(hops) == FALSE

\* the kernel gives up a path resolution (ELOOP) that follows too many symbolic links
TooManyLinks(hops) == hops > MaxSymlinks

\* hops counts the symbolic links followed so far
RECURSIVE ResolveFrom(_, _, _, _)
ResolveFrom(curNode, names, follow, hops) ==
  IF names = <<>> THEN curNode
  ELSE LET h == IF NodeTable[curNode].kind = "link" THEN hops + 1 ELSE hops
           d == Deref(curNode)
       IN IF TooManyLinks(h) \/ d = NoNode \/ NodeTable[d].kind # "dir" THEN NoNode
          ELSE LET c == Child(d, Head(names))
               IN IF c = NoNode THEN NoNode
                  ELSE IF Len(names) = 1
                  THEN (IF ~follow THEN c
                        ELSE IF NodeTable[c].kind = "link" /\ TooManyLinks(h + 1) THEN NoNode
                        ELSE Deref(c))
                  ELSE ResolveFrom(c, Tail(names), follow, h)

\* The node a path names: os.stat (follow) or os.lstat (no follow of the last component)
Resolve(p, follow) == ResolveFrom(IF IsAbs(p) THEN "/" ELSE Cwd, NamesOf(p), follow, 0)

PathExists(p) == Resolve(p, TRUE) # NoNode
IsDir(p) == LET n == Resolve(p, TRUE) IN n # NoNode /\ NodeTable[n].kind = "dir"
IsFile(p) == LET n == Resolve(p, TRUE) IN n # NoNode /\ NodeTable[n].kind = "file"
IsLink(p) == LET n == Resolve(p, FALSE) IN n # NoNode /\ NodeTable[n].kind = "link"

Readable(n) ==
  /\ (n = "root" => fsv.rootReadable)
  /\ (n = "sub" => fsv.subReadable)

\* os.listdir / os.scandir succeed on a readable directory
CanList(p) == IsDir(p) /\ Readable(Resolve(p, TRUE))

\* the names of a directory in the order the operating system returns them
Listing(p) ==
  LET d == Resolve(p, TRUE)
  IN SelectSeq(osOrder, LAMBDA name : Child(d, name) # NoNode)

\* ------------------------------------------------------------ list.sort()
RECURSIVE Insert(_, _)
Insert(x, s) ==
  IF s = <<>> THEN <<x>>
  ELSE IF Rank(x) <= Rank(Head(s)) THEN <<x>> \o s
  ELSE <<Head(s)>> \o Insert(x, Tail(s))

\* a walk that leaves the names in the order the operating system returned them
SortNames_NoSort(s) == s

RECURSIVE SortNames(_)
SortNames(s) == IF s = <<>> THEN <<>> ELSE Insert(Head(s), SortNames(Tail(s)))

\* ------------------------------------------------------------ str helpers
\* str.replace(old, '') on token sequences
RECURSIVE StrRemove(_, _)
StrRemove(s, old) ==
  IF Len(old) = 0 \/ Len(s) < Len(old) THEN s
  ELSE IF SubSeq(s, 1, Len(old)) = old THEN StrRemove(SubSeq(s, Len(old) + 1, Len(s)), old)
  ELSE <<Head(s)>> \o StrRemove(Tail(s), old)

\* str.count(os.sep)
CountSep(s) == Cardinality({k \in 1..Len(s) : s[k] = SEP})

\* current_depth = root.replace(root_path, '').count(os.sep)
CurrentDepth(root, root_path) == CountSep(StrRemove(root, root_path))

RECURSIVE Concat(_)
Concat(ss) == IF ss = <<>> THEN <<>> ELSE Head(ss) \o Concat(Tail(ss))

ToSet(s) == {s[k] : k \in 1..Len(s)}

\* ------------------------------------------------------------ the walk
\* os.walk classifies a name as a directory with DirEntry.is_dir(), which follows symlinks
WalkIsDir(top, name) == IsDir(Join(top, name))

\* The recursive branch of scan_directory: the loop over os.walk(directory_path,
\* followlinks=True) with its depth check, its sorts and its two filters.
\* os.walk ignores a directory it cannot list (onerror is None).
RECURSIVE WalkEntries(_, _, _)
WalkEntries(top, root_path, max_depth) ==
  IF ~CanList(top) THEN <<>>
  ELSE IF max_depth # None /\ CurrentDepth(top, root_path) >= max_depth THEN <<>>
  ELSE LET lst   == Listing(top)
           dirs  == SortNames(SelectSeq(lst, LAMBDA name : WalkIsDir(top, name)))
           files == SortNames(SelectSeq(lst, LAMBDA name : ~WalkIsDir(top, name)))
           keptF == SelectSeq(files, LAMBDA name : IsFile(Join(top, name)) \/ IsLink(Join(top, name)))
           keptD == SelectSeq(dirs, LAMBDA name : IsLink(Join(top, name)))
       IN [k \in 1..Len(keptF) |-> Join(top, keptF[k])]
          \o [k \in 1..Len(keptD) |-> Join(top, keptD[k])]
          \o Concat([k \in 1..Len(dirs) |-> WalkEntries(Join(top, dirs[k]), root_path, max_depth)])

\* a flat branch that keeps every name of the listing, subdirectories included
FlatEntries_NoFilter(directory_path) ==
  LET items == SortNames(Listing(directory_path))
  IN [k \in 1..Len(items) |-> Join(directory_path, items[k])]

\* The flat branch of scan_directory: sorted(os.listdir(directory_path)) and the filter
FlatEntries(directory_path) ==
  LET items == SortNames(Listing(directory_path))
      kept  == SelectSeq(items, LAMBDA name : IsFile(Join(directory_path, name)) \/ IsLink(Join(directory_path, name)))
  IN [k \in 1..Len(kept) |-> Join(directory_path, kept[k])]

\* the directories os.walk visits without being pruned, as absolute paths
RECURSIVE WalkDirs(_, _, _)
WalkDirs(top, root_path, max_depth) ==
  IF ~CanList(top) THEN {}
  ELSE IF max_depth # None /\ CurrentDepth(top, root_path) >= max_depth THEN {}
  ELSE LET lst  == Listing(top)
           dirs == SelectSeq(lst, LAMBDA name : WalkIsDir(top, name))
       IN {Abspath(top)} \cup UNION {WalkDirs(Join(top, dirs[k]), root_path, max_depth) : k \in 1..Len(dirs)}

\* Python's order on strings, for paths
RECURSIVE PathLess(_, _)
PathLess(a, b) ==
  IF a = <<>> THEN b # <<>>
  ELSE IF b = <<>> THEN FALSE
  ELSE IF Head(a) = Head(b) THEN PathLess(Tail(a), Tail(b))
  ELSE Rank(Head(a)) < Rank(Head(b))

\* a sort that returns the paths in descending order
RECURSIVE SortedPaths_Descending(_)
SortedPaths_Descending(S) ==
  IF S = {} THEN <<>>
  ELSE LET m == CHOOSE x \in S : \A y \in S \ {x} : PathLess(y, x)
       IN <<m>> \o SortedPaths_Descending(S \ {m})

\* sorted(a set of paths)
RECURSIVE SortedPaths(_)
SortedPaths(S) ==
  IF S = {} THEN <<>>
  ELSE LET m == CHOOSE x \in S : \A y \in S \ {x} : PathLess(x, y)
       IN <<m>> \o SortedPaths(S \ {m})

collect_directory_tree(directory_path, recursive, max_depth) ==
  LET root_path == Abspath(directory_path)
  IN SortedPaths({root_path} \cup
                 (IF recursive THEN WalkDirs(directory_path, root_path, max_depth) ELSE {}))

\* ------------------------------------------------------------ collectors
\* a run_command that returns the error text of a tool that is missing or fails
run_command_ReportErrors(cmd) == IF cmd = "hostname" \/ fsv.tools THEN cmd ELSE "Error: command not found"

\* run_command: the output of an external tool, or None when the tool is
\* missing, fails or exceeds its timeout
run_command(cmd) == IF cmd = "hostname" \/ fsv.tools THEN cmd ELSE "None"

\* get_standard_metadata: os.stat follows symlinks; the type comes from the mode bits
FileType(kind) ==
  CASE kind = "file" -> "regular"
    [] kind = "dir"  -> "directory"
    [] kind = "link" -> "symlink"
    [] OTHER         -> "unknown"

\* the keys of the dict get_standard_metadata returns when os.stat succeeded
MetadataKeys(file_type) ==
  {"path", "basename", "size_bytes", "size_human", "type", "permissions", "ownership",
   "timestamps", "inode"}
  \cup (IF file_type = "symlink" THEN {"symlink_target"} ELSE {})

\* the keys of the dict it returns when os.stat raised OSError
ErrorKeys == {"path", "basename", "error"}

\* a collector that returns a record without an error when os.stat fails
get_standard_metadata_Silent(filepath) ==
  LET n == Resolve(filepath, TRUE)
      file_type == IF n = NoNode THEN "unknown" ELSE FileType(NodeTable[n].kind)
  IN [path |-> filepath, type |-> file_type,
      size_bytes |-> IF n = NoNode THEN None ELSE NodeTable[n].size,
      error |-> FALSE, keys |-> MetadataKeys(file_type)]

get_standard_metadata(filepath) ==
  LET n == Resolve(filepath, TRUE)
  IN IF n = NoNode
     THEN [path |-> filepath, type |-> "None", size_bytes |-> None, error |-> TRUE,
           keys |-> ErrorKeys]
     ELSE LET file_type == FileType(NodeTable[n].kind)
          IN [path |-> filepath, type |-> file_type, size_bytes |-> NodeTable[n].size,
              error |-> FALSE, keys |-> MetadataKeys(file_type)]

\* the external commands each collector runs
XattrCommands == {"getfattr -d", "getfattr -n security.selinux"}
AclCommands == {"getfacl"}
LustreCommands ==
  {"lfs getstripe -v", "lfs getstripe -y", "lfs getstripe -O", "lfs path2fid",
   "lfs getstripe --component-count", "lfs df", "lfs quota"}

\* the collectors below return a dict; the model keeps the set of its keys
get_extended_attributes(filepath) ==
  (IF run_command("getfattr -d") # "None" THEN {"all_attributes"} ELSE {})
  \cup (IF run_command("getfattr -n security.selinux") # "None" THEN {"selinux"} ELSE {})

get_acl_info(filepath) ==
  IF run_command("getfacl") # "None" THEN {"posix_acl"} ELSE {}

\* "layout" stands for layout_yaml, or for layout_raw when the YAML text could not be loaded
get_lustre_metadata(filepath) ==
  (IF run_command("lfs getstripe -v") # "None" THEN {"stripe_info_raw", "stripe_parsed"} ELSE {})
  \cup (IF run_command("lfs getstripe -y") # "None" THEN {"layout"} ELSE {})
  \cup (IF run_command("lfs getstripe -O") # "None" THEN {"ost_indices"} ELSE {})
  \cup (IF run_command("lfs path2fid") # "None" THEN {"fid"} ELSE {})
  \cup (IF run_command("lfs getstripe --component-count") # "None" THEN {"component_count"} ELSE {})
  \cup (IF run_command("lfs df") # "None" THEN {"filesystem_info"} ELSE {})
  \cup (IF run_command("lfs quota") # "None" THEN {"user_quota"} ELSE {})

\* get_directory_metadata: os.stat of the directory and a count of its direct files
get_directory_metadata(dirpath) ==
  LET n == Resolve(dirpath, TRUE)
  IN IF n = NoNode
     THEN [path |-> dirpath, file_count |-> None, error |-> TRUE]
     ELSE [path |-> dirpath,
           file_count |-> IF CanList(dirpath)
                          THEN Len(SelectSeq(Listing(dirpath),
                                 LAMBDA name : IsFile(Join(dirpath, name)) \/ IsLink(Join(dirpath, name))))
                          ELSE 0,
           error |-> FALSE]

\* ------------------------------------------------------------ initial state
NoScanInfo == [directory |-> <<>>, scan_time |-> None, hostname |-> "None", recursive |-> FALSE,
               lustre_enabled |-> FALSE, total_files |-> None, total_directories |-> None,
               scan_completed |-> None]
NoResults == [scan_info |-> NoScanInfo, directories |-> <<>>, files |-> <<>>]
NoMetadata == [path |-> <<>>, type |-> "None", size_bytes |-> None, error |-> FALSE, keys |-> {}]
NoLustre == [present |-> FALSE, keys |-> {}]
NoEntry == [scan_order |-> 0, standard_metadata |-> NoMetadata, extended_attributes |-> {},
            acl_info |-> {}, lustre_metadata |-> NoLustre]
NoFile == [state |-> "absent", doc |-> NoResults]
NoWalk == [phase |-> "idle", stack |-> <<>>, entries |-> <<>>, directories |-> {}, steps |-> 0]
NoResponse == [kind |-> "none", text |-> "", row_count |-> None, results |-> <<>>, note |-> FALSE]
NoMcp == [results |-> [rows |-> <<>>, encodable |-> TRUE], response |-> NoResponse]
NoDisplay == [worker |-> 0, workers |-> <<>>, queue |-> <<>>, file_list |-> <<>>, ignored |-> {}]
Message(role, tool_calls, tool_call_id) ==
  [role |-> role, tool_calls |-> tool_calls, tool_call_id |-> tool_call_id]
NoWorker == [pc |-> "none", message_history |-> <<>>, tool_calls |-> <<>>]
NoChat == [message_history |-> <<Message("system", <<>>, 0)>>, input_enabled |-> TRUE,
           worker |-> NoWorker, running |-> 0, sent |-> 0, next_id |-> 1]
NoFolder == [files |-> {}, runs |-> 0, clock |-> 1, last |-> [directory |-> <<>>, ok |-> FALSE]]

\* the tables create_database_schema creates whatever the options are
BaseTables ==
  {"scan_info", "directories", "directory_permissions", "directory_ownership",
   "directory_timestamps", "directory_inodes", "directory_extended_attributes",
   "directory_acl_info", "directory_files", "files", "file_permissions", "file_ownership",
   "file_timestamps", "file_inodes", "extended_attributes", "acl_info"}

\* the database: its tables, the rows of scan_info and the rows of lustre_metadata
\* (one per file, named by the file's path), of directories, of files and of directory_files
NoDb == [tables |-> {}, scan_info |-> <<>>, lustre_metadata |-> <<>>,
         directories |-> <<>>, files |-> <<>>, directory_files |-> <<>>]

\* What earlier invocations of the same logical scan did (a logical scan ends
\* with an invocation that completes):
\*   firstStart   scan start time its first invocation recorded (0: none yet)
\*   restarts     number of invocations that followed an interrupted one
\*   interrupted  the previous invocation was interrupted
\*   prevK        number of file Entries that invocation had appended
\*   doneEarlier  paths whose Entry an interrupted invocation had appended
\*   full         the last completed scan
\*   signalled    a SIGINT was delivered to the current (or last) process
NoFull == [valid |-> FALSE, entries |-> <<>>, total_files |-> None, total_directories |-> None,
           order |-> <<>>]
NoHist == [firstStart |-> 0, restarts |-> 0, interrupted |-> FALSE, prevK |-> 0,
           doneEarlier |-> {}, full |-> NoFull, signalled |-> FALSE]

\* orders in which the operating system may list the names of a directory
OsOrderA == <<"a.txt", "b.txt", "c.txt", "lnk", "sub", "subsub", "root", "file.bin">>
OsOrderB == <<"subsub", "sub", "root", "lnk", "file.bin", "c.txt", "b.txt", "a.txt">>
OsOrders == {OsOrderA, OsOrderB}

AbsRoot == <<SEP, "root">>
RelRoot == <<"root">>

FsVariants ==
  {f \in [lnk : {"absent", "sub", "dangling"}, subReadable : BOOLEAN, rootReadable : BOOLEAN,
          tools : BOOLEAN] :
     /\ (~f.rootReadable => (f.subReadable /\ f.lnk = "absent" /\ f.tools))
     /\ (~f.subReadable => f.tools)}

ArgSets ==
  {a \in [directory : {AbsRoot, RelRoot, <<SEP, "file.bin">>, <<SEP, "nope">>},
          recursive : BOOLEAN, max_depth : {None, 1}, lustre : BOOLEAN,
          output : BOOLEAN, db : BOOLEAN, extra : {"", "--cleanup"}] :
     /\ (a.max_depth # None => a.recursive)
     /\ (a.db => a.output)
     /\ (a.directory \notin {AbsRoot, RelRoot} \/ a.extra # "" =>
            ~a.recursive /\ ~a.lustre /\ a.output /\ ~a.db)
     /\ (a.extra # "" => a.directory = AbsRoot)}

\* no scanner process has run yet
ScannerIdle ==
  /\ now = 0
  /\ runNo = 0
  /\ pc = "idle"
  /\ exitCode = None
  /\ stderr = {}
  /\ entries = <<>>
  /\ directories = <<>>
  /\ results = NoResults
  /\ cur = NoEntry
  /\ col = "none"
  /\ outFile = NoFile
  /\ dbFile = NoDb
  /\ invoked = {}
  /\ hist = NoHist

Init ==
  /\ fsv \in FsVariants
  /\ args \in ArgSets
  /\ (args.directory \notin {AbsRoot, RelRoot} \/ args.extra # "" =>
        fsv = [lnk |-> "absent", subReadable |-> TRUE, rootReadable |-> TRUE, tools |-> TRUE])
  /\ osOrder = OsOrderA
  /\ ScannerIdle
  /\ walk = NoWalk
  /\ mcp = NoMcp
  /\ display = NoDisplay
  /\ chat = NoChat
  /\ folder = NoFolder

\* ------------------------------------------------------------ process steps
PathsOf(files) == {files[k].standard_metadata.path : k \in 1..Len(files)}

\* the process ends with the given status; its memory is gone
Terminate(code, msg, h) ==
  /\ pc' = "idle"
  /\ exitCode' = code
  /\ stderr' = stderr \cup {msg}
  /\ hist' = h
  /\ entries' = <<>>
  /\ directories' = <<>>
  /\ results' = NoResults
  /\ cur' = NoEntry
  /\ col' = "none"

\* the command is run (again) against the unchanged tree
Invoke ==
  /\ pc = "idle"
  /\ runNo < MaxRuns
  /\ runNo' = runNo + 1
  /\ now' = now + 1
  /\ osOrder' \in OsOrders
  /\ pc' = "parse"
  /\ exitCode' = None
  /\ stderr' = {}
  /\ hist' = [hist EXCEPT !.restarts = IF hist.interrupted THEN @ + 1 ELSE @,
                          !.signalled = FALSE]
  /\ invoked' = {}
  /\ UNCHANGED <<others, fsv, args, entries, directories, results, cur, col, outFile, dbFile>>

\* parser.parse_args(): an option the parser does not define ends the process with status 2
ParseArgs ==
  /\ pc = "parse"
  /\ IF args.extra # ""
     THEN /\ Terminate(2, "usage: unrecognized arguments", hist)
     ELSE /\ pc' = "validate"
          /\ UNCHANGED <<exitCode, stderr, hist, entries, directories, results, cur, col>>
  /\ UNCHANGED <<others, fsv, args, osOrder, now, runNo, invoked, outFile, dbFile>>

\* main: "Validate directory"
ValidateDirectory ==
  /\ pc = "validate"
  /\ IF ~PathExists(args.directory)
     THEN /\ Terminate(1, "Error: Directory does not exist", hist)
     ELSE IF ~IsDir(args.directory)
     THEN /\ Terminate(1, "Error: is not a directory", hist)
     ELSE /\ pc' = "scan"
          /\ UNCHANGED <<exitCode, stderr, hist, entries, directories, results, cur, col>>
  /\ UNCHANGED <<others, fsv, args, osOrder, now, runNo, invoked, outFile, dbFile>>

\* scan_directory: the isdir check and "Initialize results"
ScanInit ==
  /\ pc = "scan"
  /\ IF ~IsDir(args.directory)
     THEN /\ Terminate(1, "Error: is not a directory", hist)
          /\ UNCHANGED invoked
     ELSE /\ results' = [scan_info |-> [NoScanInfo EXCEPT !.directory = Abspath(args.directory),
                                                           !.scan_time = now,
                                                           !.hostname = run_command("hostname"),
                                                           !.recursive = args.recursive,
                                                           !.lustre_enabled = args.lustre],
                         directories |-> <<>>,
                         files |-> <<>>]
          /\ pc' = "walk"
          /\ invoked' = {"hostname"} \cup (IF args.lustre THEN {"lfs --version"} ELSE {})
          /\ hist' = [hist EXCEPT !.firstStart = IF @ = 0 THEN now ELSE @]
          /\ UNCHANGED <<exitCode, stderr, entries, directories, cur, col>>
  /\ UNCHANGED <<others, fsv, args, osOrder, now, runNo, outFile, dbFile>>

\* os.listdir raises OSError on a directory it cannot list
ListdirRaises(p) == ~CanList(p)

\* scan_directory: "except OSError" prints the error and returns None; main then exits with 1
ScanFailed == Terminate(1, "Error scanning directory", hist)

\* scan_directory: "Get list of files in directory"
Walk ==
  /\ pc = "walk"
  /\ IF args.recursive
     THEN /\ entries' = WalkEntries(args.directory, Abspath(args.directory), args.max_depth)
          /\ pc' = "collect"
          /\ UNCHANGED <<exitCode, stderr, hist, directories, results, cur, col>>
     ELSE IF ~ListdirRaises(args.directory)
     THEN /\ entries' = FlatEntries(args.directory)
          /\ pc' = "collect"
          /\ UNCHANGED <<exitCode, stderr, hist, directories, results, cur, col>>
     ELSE ScanFailed
  /\ UNCHANGED <<others, fsv, args, osOrder, now, runNo, invoked, outFile, dbFile>>

\* scan_directory: directories = collect_directory_tree(...)
CollectDirs ==
  /\ pc = "collect"
  /\ directories' = collect_directory_tree(args.directory, args.recursive, args.max_depth)
  /\ pc' = "dirs"
  /\ UNCHANGED <<others, fsv, args, osOrder, now, runNo, invoked, exitCode, stderr, entries, results,
                 cur, col, outFile, dbFile, hist>>

\* scan_directory: one iteration of "for dir_path in directories"
ProcessDirectory ==
  /\ pc = "dirs"
  /\ Len(results.directories) < Len(directories)
  /\ LET dir_path == directories[Len(results.directories) + 1]
         directory_data == [standard_metadata |-> get_directory_metadata(dir_path),
                            extended_attributes |-> get_extended_attributes(dir_path),
                            acl_info |-> get_acl_info(dir_path)]
     IN results' = [results EXCEPT !.directories = Append(@, directory_data)]
  /\ invoked' = invoked \cup XattrCommands \cup AclCommands
  /\ UNCHANGED <<others, fsv, args, osOrder, now, runNo, pc, exitCode, stderr, entries,
                 directories, cur, col, outFile, dbFile, hist>>

\* scan_directory: total_files = len(entries), the loop over the entries begins
StartFiles ==
  /\ pc = "dirs"
  /\ Len(results.directories) = Len(directories)
  /\ pc' = "files"
  /\ col' = "std"
  /\ UNCHANGED <<others, fsv, args, osOrder, now, runNo, invoked, exitCode, stderr, entries,
                 directories, results, cur, outFile, dbFile, hist>>

\* a loop that skips as many entries as the interrupted invocation had appended
LoopIndex_SkipEarlier == Len(results.files) + 1 + hist.prevK

\* the file this iteration of "for i, filepath in enumerate(entries, 1)" is about
LoopIndex == Len(results.files) + 1

CollectStandard ==
  /\ pc = "files" /\ col = "std"
  /\ LoopIndex <= Len(entries)
  /\ cur' = [NoEntry EXCEPT !.scan_order = LoopIndex,
                            !.standard_metadata = get_standard_metadata(entries[LoopIndex])]
  /\ col' = "xattr"
  /\ UNCHANGED <<others, fsv, args, osOrder, now, runNo, invoked, pc, exitCode, stderr, entries,
                 directories, results, outFile, dbFile, hist>>

\* a collector that runs its commands without a timeout: it returns only when the tool does
CollectXattr_NoTimeout ==
  /\ fsv.tools
  /\ pc = "files" /\ col = "xattr"
  /\ cur' = [cur EXCEPT !.extended_attributes = get_extended_attributes(entries[LoopIndex])]
  /\ col' = "acl"
  /\ invoked' = invoked \cup XattrCommands
  /\ UNCHANGED <<others, fsv, args, osOrder, now, runNo, pc, exitCode, stderr, entries,
                 directories, results, outFile, dbFile, hist>>

\* scan_directory: get_extended_attributes(filepath); run_command gives a tool 30 seconds
CollectXattr ==
  /\ pc = "files" /\ col = "xattr"
  /\ cur' = [cur EXCEPT !.extended_attributes = get_extended_attributes(entries[LoopIndex])]
  /\ col' = "acl"
  /\ invoked' = invoked \cup XattrCommands
  /\ UNCHANGED <<others, fsv, args, osOrder, now, runNo, pc, exitCode, stderr, entries,
                 directories, results, outFile, dbFile, hist>>

\* a loop that gathers the Lustre metadata whatever the option says
CollectAcl_AlwaysLustre ==
  /\ pc = "files" /\ col = "acl"
  /\ cur' = [cur EXCEPT !.acl_info = get_acl_info(entries[LoopIndex])]
  /\ col' = "lustre"
  /\ invoked' = invoked \cup AclCommands
  /\ UNCHANGED <<others, fsv, args, osOrder, now, runNo, pc, exitCode, stderr, entries,
                 directories, results, outFile, dbFile, hist>>

CollectAcl ==
  /\ pc = "files" /\ col = "acl"
  /\ cur' = [cur EXCEPT !.acl_info = get_acl_info(entries[LoopIndex])]
  /\ col' = IF args.lustre THEN "lustre" ELSE "append"
  /\ invoked' = invoked \cup AclCommands
  /\ UNCHANGED <<others, fsv, args, osOrder, now, runNo, pc, exitCode, stderr, entries,
                 directories, results, outFile, dbFile, hist>>

\* "Only gather Lustre metadata if enabled"
CollectLustre ==
  /\ pc = "files" /\ col = "lustre"
  /\ cur' = [cur EXCEPT !.lustre_metadata =
                          [present |-> TRUE, keys |-> get_lustre_metadata(entries[LoopIndex])]]
  /\ col' = "append"
  /\ invoked' = invoked \cup LustreCommands
  /\ UNCHANGED <<others, fsv, args, osOrder, now, runNo, pc, exitCode, stderr, entries,
                 directories, results, outFile, dbFile, hist>>

\* a loop that puts each new Entry in front of the earlier ones
AppendFile_Prepend ==
  /\ pc = "files" /\ col = "append"
  /\ results' = [results EXCEPT !.files = <<cur>> \o @]
  /\ cur' = NoEntry
  /\ col' = "std"
  /\ UNCHANGED <<others, fsv, args, osOrder, now, runNo, invoked, pc, exitCode, stderr, entries,
                 directories, outFile, dbFile, hist>>

\* results['files'].append(file_metadata)
AppendFile ==
  /\ pc = "files" /\ col = "append"
  /\ results' = [results EXCEPT !.files = Append(@, cur)]
  /\ cur' = NoEntry
  /\ col' = "std"
  /\ UNCHANGED <<others, fsv, args, osOrder, now, runNo, invoked, pc, exitCode, stderr, entries,
                 directories, outFile, dbFile, hist>>

\* scan_directory: "Update final scan info" and return results
Finalize ==
  /\ pc = "files" /\ col = "std"
  /\ LoopIndex > Len(entries)
  /\ results' = [results EXCEPT !.scan_info.total_files = Len(entries),
                                !.scan_info.total_directories = Len(results.directories),
                                !.scan_info.scan_completed = now]
  /\ pc' = "json"
  /\ col' = "none"
  /\ UNCHANGED <<others, fsv, args, osOrder, now, runNo, invoked, exitCode, stderr, entries,
                 directories, cur, outFile, dbFile, hist>>

\* ------------------------------------------------------------ output
\* main: open(args.output, 'w') truncates the file; an IOError ends the process with 1
OpenOutput ==
  /\ pc = "json"
  /\ args.output
  /\ \E ok \in BOOLEAN :
       IF ok
       THEN /\ outFile' = [state |-> "truncated", doc |-> NoResults]
            /\ pc' = "write"
            /\ UNCHANGED <<exitCode, stderr, hist, entries, directories, results, cur, col>>
       ELSE /\ Terminate(1, "Error writing JSON", hist)
            /\ UNCHANGED outFile
  /\ UNCHANGED <<others, fsv, args, osOrder, now, runNo, invoked, dbFile>>

\* main: f.write(json_output)
WriteOutput ==
  /\ pc = "write"
  /\ outFile' = [state |-> "complete", doc |-> results]
  /\ pc' = "db"
  /\ UNCHANGED <<others, fsv, args, osOrder, now, runNo, invoked, exitCode, stderr, entries,
                 directories, results, cur, col, dbFile, hist>>

\* main: print(json_output) when no output file is named
PrintOutput ==
  /\ pc = "json"
  /\ ~args.output
  /\ pc' = "db"
  /\ UNCHANGED <<others, fsv, args, osOrder, now, runNo, invoked, exitCode, stderr, entries,
                 directories, results, cur, col, outFile, dbFile, hist>>

\* create_database_schema: CREATE TABLE IF NOT EXISTS for every table
create_database_schema(db, enable_lustre) ==
  [db EXCEPT !.tables = @ \cup BaseTables
                          \cup (IF enable_lustre THEN {"lustre_metadata"} ELSE {})]

\* os.path.dirname(p)
Dirname(p) ==
  LET seps == {k \in 1..Len(p) : p[k] = SEP}
      i    == IF seps = {} THEN 0 ELSE CHOOSE k \in seps : \A j \in seps : j <= k
  IN IF i = 0 THEN <<>>
     ELSE IF i = 1 THEN <<SEP>>
     ELSE SubSeq(p, 1, i - 1)

\* a cursor whose lastrowid is always that of the first row
lastrowid_First(rows) == 1

\* cursor.lastrowid after an INSERT into a table with "id INTEGER PRIMARY KEY"
\* from which no row is ever deleted: the number of rows
lastrowid(rows) == Len(rows)

\* directory_id_map[dir_path] = directory_id
MapPut(map, key, value) == [k \in DOMAIN map \cup {key} |-> IF k = key THEN value ELSE map[k]]

\* insert_scan_data_to_db: the loop "for dir_data in results['directories']";
\* the result is the table and directory_id_map
RECURSIVE InsertDirectories(_, _, _, _)
InsertDirectories(rows, dirs, scan_id, directory_id_map) ==
  IF dirs = <<>> THEN [rows |-> rows, map |-> directory_id_map]
  ELSE LET dir_path      == Head(dirs).standard_metadata.path
           parent_path   == Dirname(dir_path)
           parent_dir_id == IF parent_path # dir_path /\ parent_path \in DOMAIN directory_id_map
                            THEN directory_id_map[parent_path] ELSE None
           row(id)       == [id |-> id, scan_id |-> scan_id, path |-> dir_path,
                             parent_directory_id |-> parent_dir_id]
           inserted      == Append(rows, row(Len(rows) + 1))
           directory_id  == lastrowid(inserted)
       IN InsertDirectories(inserted, Tail(dirs), scan_id,
                            MapPut(directory_id_map, dir_path, directory_id))

\* insert_scan_data_to_db: the loop "for file_data in results['files']";
\* the result is the tables files and directory_files
RECURSIVE InsertFiles(_, _, _, _, _)
InsertFiles(rows, links, files, scan_id, directory_id_map) ==
  IF files = <<>> THEN [rows |-> rows, links |-> links]
  ELSE LET file_path         == Head(files).standard_metadata.path
           file_dir_path     == Dirname(file_path)
           file_directory_id == IF file_dir_path \in DOMAIN directory_id_map
                                THEN directory_id_map[file_dir_path] ELSE None
           inserted          == Append(rows, [id |-> Len(rows) + 1, scan_id |-> scan_id,
                                              scan_order |-> Head(files).scan_order,
                                              path |-> file_path,
                                              directory_id |-> file_directory_id])
           file_id           == lastrowid(inserted)
           linked            == IF file_directory_id # None
                                THEN Append(links, [id |-> Len(links) + 1,
                                                    directory_id |-> file_directory_id,
                                                    file_id |-> file_id])
                                ELSE links
       IN InsertFiles(inserted, linked, Tail(files), scan_id, directory_id_map)

\* insert_scan_data_to_db: the row of scan_info, the rows of directories, the rows
\* of files and directory_files, and for each file whose lustre_metadata dict is
\* not empty a row of lustre_metadata
insert_scan_data_to_db(db, res, enable_lustre) ==
  LET withLustre == SelectSeq(res.files, LAMBDA f : enable_lustre /\ f.lustre_metadata.keys # {})
      scan_id    == lastrowid(Append(db.scan_info, res.scan_info))
      d          == InsertDirectories(db.directories, res.directories, scan_id, <<>>)
      f          == InsertFiles(db.files, db.directory_files, res.files, scan_id, d.map)
  IN [db EXCEPT !.scan_info = Append(@, res.scan_info),
                !.directories = d.rows,
                !.files = f.rows,
                !.directory_files = f.links,
                !.lustre_metadata = @ \o [k \in 1..Len(withLustre) |->
                                             withLustre[k].standard_metadata.path]]

\* main: "Output to SQLite database"; any exception ends the process with 1
WriteDatabase ==
  /\ pc = "db"
  /\ args.db
  /\ \E ok \in BOOLEAN :
       IF ok
       THEN /\ dbFile' = insert_scan_data_to_db(create_database_schema(dbFile, args.lustre),
                                                results, args.lustre)
            /\ pc' = "success"
            /\ UNCHANGED <<exitCode, stderr, hist, entries, directories, results, cur, col>>
       ELSE /\ Terminate(1, "Error writing to database", hist)
            /\ UNCHANGED dbFile
  /\ UNCHANGED <<others, fsv, args, osOrder, now, runNo, invoked, outFile>>

SkipDatabase ==
  /\ pc = "db"
  /\ ~args.db
  /\ pc' = "success"
  /\ UNCHANGED <<others, fsv, args, osOrder, now, runNo, invoked, exitCode, stderr, entries,
                 directories, results, cur, col, outFile, dbFile, hist>>

\* main: print("Scan completed successfully!")
PrintSuccess ==
  /\ pc = "success"
  /\ stderr' = stderr \cup {"Scan completed successfully!"}
  /\ pc' = "end"
  /\ UNCHANGED <<others, fsv, args, osOrder, now, runNo, invoked, exitCode, entries, directories, results,
                 cur, col, outFile, dbFile, hist>>

\* main returns: the process ends with status 0 and the logical scan is complete
ExitNormally ==
  /\ pc = "end"
  /\ exitCode' = 0
  /\ pc' = "idle"
  /\ hist' = [NoHist EXCEPT !.full = [valid |-> TRUE, entries |-> entries,
                                           total_files |-> results.scan_info.total_files,
                                           total_directories |-> results.scan_info.total_directories,
                                           order |-> osOrder],
                            !.signalled = hist.signalled]
  /\ entries' = <<>>
  /\ directories' = <<>>
  /\ results' = NoResults
  /\ cur' = NoEntry
  /\ col' = "none"
  /\ UNCHANGED <<others, fsv, args, osOrder, now, runNo, invoked, stderr, outFile, dbFile>>

\* ------------------------------------------------------------ interruption
\* the history after a SIGINT ended the process; the logical scan counts as
\* interrupted once scan_directory had recorded its start
InterruptedHist ==
  IF results.scan_info.scan_time = None
  THEN [hist EXCEPT !.signalled = TRUE]
  ELSE [hist EXCEPT !.signalled = TRUE,
                    !.interrupted = TRUE,
                    !.prevK = Len(results.files),
                    !.doneEarlier = @ \cup PathsOf(results.files)]

\* the position is inside main's try block around scan_directory
InScan == pc \in {"scan", "walk", "collect", "dirs", "files"}

\* KeyboardInterrupt during scan_directory: main prints "Scan interrupted." and exits with 1
Interrupt ==
  /\ InScan
  /\ Terminate(1, "Scan interrupted.", InterruptedHist)
  /\ UNCHANGED <<others, fsv, args, osOrder, now, runNo, invoked, outFile, dbFile>>

\* KeyboardInterrupt outside the try block is not caught: the interpreter ends with 130
InterruptOutside ==
  /\ pc \in {"parse", "validate", "json", "write", "db", "success"}
  /\ Terminate(130, "KeyboardInterrupt", InterruptedHist)
  /\ UNCHANGED <<others, fsv, args, osOrder, now, runNo, invoked, outFile, dbFile>>

\* KeyboardInterrupt while get_lustre_metadata loads the YAML text of
\* "lfs getstripe -y": the bare "except:" around the load catches it, the text is
\* kept as layout_raw and the scan goes on
InterruptSwallowed ==
  /\ pc = "files" /\ col = "lustre"
  /\ run_command("lfs getstripe -y") # "None"
  /\ hist' = [hist EXCEPT !.signalled = TRUE]
  /\ UNCHANGED <<others, fsv, args, osOrder, now, runNo, invoked, pc, exitCode, stderr, entries, directories,
                 results, cur, col, outFile, dbFile>>

Next ==
  \/ Invoke
  \/ ParseArgs
  \/ ValidateDirectory
  \/ ScanInit
  \/ Walk
  \/ CollectDirs
  \/ ProcessDirectory
  \/ StartFiles
  \/ CollectStandard
  \/ CollectXattr
  \/ CollectAcl
  \/ CollectLustre
  \/ AppendFile
  \/ Finalize
  \/ OpenOutput
  \/ WriteOutput
  \/ PrintOutput
  \/ WriteDatabase
  \/ SkipDatabase
  \/ PrintSuccess
  \/ ExitNormally
  \/ Interrupt
  \/ InterruptOutside
  \/ InterruptSwallowed

Spec == Init /\ [][Next]_vars

\* ------------------------------------------------------------ hung tools
\* every external tool hangs: run_command abandons it at its timeout and returns None.
\* The scans are flat ones: the tools run in the loops over the directories and
\* the entries, which a recursive scan shares; the walk itself runs no tool.
InitHung == Init /\ ~fsv.tools /\ ~args.recursive

\* the steps of a running process; the operating system keeps scheduling it
Step ==
  \/ ParseArgs
  \/ ValidateDirectory
  \/ ScanInit
  \/ Walk
  \/ CollectDirs
  \/ ProcessDirectory
  \/ StartFiles
  \/ CollectStandard
  \/ CollectXattr
  \/ CollectAcl
  \/ CollectLustre
  \/ AppendFile
  \/ Finalize
  \/ OpenOutput
  \/ WriteOutput
  \/ PrintOutput
  \/ WriteDatabase
  \/ SkipDatabase
  \/ PrintSuccess
  \/ ExitNormally

NextHung ==
  \/ Invoke
  \/ Step
  \/ Interrupt
  \/ InterruptOutside

SpecHung == InitHung /\ [][NextHung]_vars /\ WF_vars(Step)

\* ------------------------------------------------------------ os.walk, one directory at a time
\* what os.walk yields for top: the names is_dir() takes for directories and the others
WalkYield(top) ==
  LET lst == Listing(top)
  IN [dirs  |-> SelectSeq(lst, LAMBDA name : WalkIsDir(top, name)),
      files |-> SelectSeq(lst, LAMBDA name : ~WalkIsDir(top, name))]

\* the loop body's depth check: "dirs[:] = []" and "continue"
Pruned(top) ==
  args.max_depth # None /\ CurrentDepth(top, Abspath(args.directory)) >= args.max_depth

\* the trees and command lines of the walks
WalkFsVariants ==
  [lnk : {"absent", "sub", "root"}, subReadable : BOOLEAN, rootReadable : {TRUE}, tools : {TRUE}]

WalkArgSets ==
  [directory : {AbsRoot, RelRoot}, recursive : {TRUE}, max_depth : {None, 1}, lustre : {FALSE},
   output : {FALSE}, db : {FALSE}, extra : {""}]

InitWalk ==
  /\ fsv \in WalkFsVariants
  /\ args \in WalkArgSets
  /\ osOrder \in OsOrders
  /\ ScannerIdle
  /\ walk = NoWalk
  /\ mcp = NoMcp
  /\ display = NoDisplay
  /\ chat = NoChat
  /\ folder = NoFolder

\* scan_directory: os.walk(directory_path, followlinks=True) begins
WalkBegin ==
  /\ walk.phase = "idle"
  /\ walk' = [walk EXCEPT !.phase = "entries", !.stack = <<args.directory>>]
  /\ UNCHANGED notWalk

\* scan_directory: one iteration of "for root, dirs, files in os.walk(...)"; os.walk
\* then descends into the names left in dirs, in their order
ScanWalkStep ==
  /\ walk.phase = "entries"
  /\ walk.stack # <<>>
  /\ walk.steps < MaxWalkSteps
  /\ LET top == Head(walk.stack)
     IN IF ~CanList(top) \/ Pruned(top)
        THEN walk' = [walk EXCEPT !.stack = Tail(@), !.steps = @ + 1]
        ELSE LET y     == WalkYield(top)
                 dirs  == SortNames(y.dirs)
                 files == SortNames(y.files)
                 keptF == SelectSeq(files, LAMBDA name : IsFile(Join(top, name)) \/ IsLink(Join(top, name)))
                 keptD == SelectSeq(dirs, LAMBDA name : IsLink(Join(top, name)))
             IN walk' = [walk EXCEPT
                           !.entries = @ \o [k \in 1..Len(keptF) |-> Join(top, keptF[k])]
                                         \o [k \in 1..Len(keptD) |-> Join(top, keptD[k])],
                           !.stack = [k \in 1..Len(dirs) |-> Join(top, dirs[k])] \o Tail(@),
                           !.steps = @ + 1]
  /\ UNCHANGED notWalk

\* scan_directory's walk is exhausted; collect_directory_tree adds the root and begins its own
ScanWalkEnd ==
  /\ walk.phase = "entries"
  /\ walk.stack = <<>>
  /\ walk' = [walk EXCEPT !.phase = "collect", !.stack = <<args.directory>>,
                          !.directories = {Abspath(args.directory)}]
  /\ UNCHANGED notWalk

\* collect_directory_tree: one iteration of "for root, dirs, files in os.walk(...)"
CollectWalkStep ==
  /\ walk.phase = "collect"
  /\ walk.stack # <<>>
  /\ walk.steps < MaxWalkSteps
  /\ LET top == Head(walk.stack)
     IN IF ~CanList(top) \/ Pruned(top)
        THEN walk' = [walk EXCEPT !.stack = Tail(@), !.steps = @ + 1]
        ELSE LET dirs == WalkYield(top).dirs
             IN walk' = [walk EXCEPT
                           !.directories = @ \cup {Abspath(top)},
                           !.stack = [k \in 1..Len(dirs) |-> Join(top, dirs[k])] \o Tail(@),
                           !.steps = @ + 1]
  /\ UNCHANGED notWalk

\* collect_directory_tree returns sorted(directories)
CollectWalkEnd ==
  /\ walk.phase = "collect"
  /\ walk.stack = <<>>
  /\ walk' = [walk EXCEPT !.phase = "done"]
  /\ UNCHANGED notWalk

NextWalk ==
  \/ WalkBegin
  \/ ScanWalkStep
  \/ ScanWalkEnd
  \/ CollectWalkStep
  \/ CollectWalkEnd

SpecWalk == InitWalk /\ [][NextWalk]_vars

\* ------------------------------------------------------------ the assistant's SQL tool
\* (src/aiAssistant/mcp_server.py)
\* "Limit to first 100 rows for safety"
RowLimit == 100

\* formatted_results[:n]
Take(rows, n) == SubSeq(rows, 1, IF Len(rows) < n THEN Len(rows) ELSE n)

\* a tool that returns every row
run_sql_query_NoLimit(fetched) ==
  IF fetched.rows = <<>>
  THEN [NoResponse EXCEPT !.kind = "text",
                          !.text = "Query executed successfully but returned no results."]
  ELSE IF ~fetched.encodable
  THEN [NoResponse EXCEPT !.kind = "text", !.text = "Error running SQL query"]
  ELSE [kind |-> "json", text |-> "", row_count |-> Len(fetched.rows),
        results |-> fetched.rows,
        note |-> Len(fetched.rows) > RowLimit]

\* run_sql_query from cursor.fetchall() on: fetched.rows are the rows fetched,
\* fetched.encodable says whether json.dumps can encode the rows that are returned
run_sql_query(fetched) ==
  IF fetched.rows = <<>>
  THEN [NoResponse EXCEPT !.kind = "text",
                          !.text = "Query executed successfully but returned no results."]
  ELSE IF ~fetched.encodable
  THEN [NoResponse EXCEPT !.kind = "text", !.text = "Error running SQL query"]
  ELSE [kind |-> "json", text |-> "", row_count |-> Len(fetched.rows),
        results |-> Take(fetched.rows, RowLimit),
        note |-> Len(fetched.rows) > RowLimit]

\* the query results: T rows, numbered
QueryResults == {[rows |-> [k \in 1..T |-> k], encodable |-> e] : T \in 0..MaxRows, e \in BOOLEAN}

\* the scanner is not part of the programs below: no scan has run
ScannerUnused ==
  /\ ScannerIdle
  /\ fsv = [lnk |-> "absent", subReadable |-> TRUE, rootReadable |-> TRUE, tools |-> TRUE]
  /\ args = [directory |-> AbsRoot, recursive |-> FALSE, max_depth |-> None, lustre |-> FALSE,
             output |-> FALSE, db |-> FALSE, extra |-> ""]
  /\ osOrder = OsOrderA
  /\ walk = NoWalk

InitQuery ==
  /\ ScannerUnused
  /\ mcp \in [results : QueryResults, response : {NoResponse}]
  /\ display = NoDisplay
  /\ chat = NoChat
  /\ folder = NoFolder

\* the tool is called and answers
ToolCall ==
  /\ mcp.response = NoResponse
  /\ mcp' = [mcp EXCEPT !.response = run_sql_query(mcp.results)]
  /\ UNCHANGED notMcp

NextQuery == ToolCall

SpecQuery == InitQuery /\ [][NextQuery]_vars

\* ------------------------------------------------------------ the file browser's display
\* (src/file_display.py)
\* display.worker    self.worker: the index of the current DirectoryWorker, 0 for None
\* display.workers   the DirectoryWorker objects created so far: path, _cancelled, the
\*                   position of its thread (run, checked, exit), whether its signals
\*                   are connected to the display's slots, and what it found
\* display.queue     the emissions posted to the event queue of the GUI thread
\* display.file_list the items of file_list_widget, each with the worker it came from
\* display.ignored   the workers an emission of which was dropped on delivery
BrowserPaths == {<<SEP, "root">>, <<SEP, "root", SEP, "sub">>}

InitBrowser ==
  /\ ScannerUnused
  /\ mcp = NoMcp
  /\ display = NoDisplay
  /\ chat = NoChat
  /\ folder = NoFolder

\* a cleanup that cancels and terminates the worker but leaves its signals connected
_cleanup_worker_KeepConnected(d, killed) ==
  IF d.worker = 0 THEN d
  ELSE [d EXCEPT !.workers[d.worker] =
                    [@ EXCEPT !.cancelled = TRUE,
                              !.pc = IF killed THEN "exit" ELSE @],
                 !.worker = 0]

\* _cleanup_worker: cancel(), disconnect() of the worker's signals, terminate() of
\* a thread that still runs (killed says whether it ended within the wait), self.worker = None
_cleanup_worker(d, killed) ==
  IF d.worker = 0 THEN d
  ELSE [d EXCEPT !.workers[d.worker] =
                    [@ EXCEPT !.cancelled = TRUE,
                              !.connected = FALSE,
                              !.pc = IF killed THEN "exit" ELSE @],
                 !.worker = 0]

\* load_directory_contents(path): the cleanup, file_list_widget.clear(), and a new
\* worker that is connected and started
LoadDirectoryContents(path) ==
  /\ Len(display.workers) < MaxLoads
  /\ \E killed \in BOOLEAN :
       LET d == _cleanup_worker(display, killed)
       IN display' = [d EXCEPT !.file_list = <<>>,
                               !.workers = Append(@, [path |-> path, cancelled |-> FALSE,
                                                      pc |-> "run", connected |-> TRUE,
                                                      kind |-> "none"]),
                               !.worker = Len(d.workers) + 1]
  /\ UNCHANGED notDisplay

\* DirectoryWorker.run up to its last look at _cancelled: it returns when it is
\* cancelled, else it has the entries or an error message to emit
WorkerCheck(w) ==
  /\ display.workers[w].pc = "run"
  /\ IF display.workers[w].cancelled
     THEN display' = [display EXCEPT !.workers[w].pc = "exit"]
     ELSE \E kind \in {"contents_loaded", "error_occurred"} :
            display' = [display EXCEPT !.workers[w].pc = "checked", !.workers[w].kind = kind]
  /\ UNCHANGED notDisplay

\* DirectoryWorker.run: contents_loaded.emit(entries) or error_occurred.emit(...);
\* a connected signal posts the call to the GUI thread, a disconnected one does nothing
WorkerEmit(w) ==
  /\ display.workers[w].pc = "checked"
  /\ display' = [display EXCEPT
                    !.workers[w].pc = "exit",
                    !.queue = IF display.workers[w].connected
                              THEN Append(@, [worker |-> w, kind |-> display.workers[w].kind])
                              ELSE @]
  /\ UNCHANGED notDisplay

\* the GUI thread's event loop delivers the oldest posted call: on_contents_loaded
\* adds the entries, on_loading_error replaces the list by an error item; the
\* slot proxy of a signal that was disconnected meanwhile ignores the call
Deliver ==
  /\ display.queue # <<>>
  /\ LET e == Head(display.queue)
     IN IF ~display.workers[e.worker].connected
        THEN display' = [display EXCEPT !.queue = Tail(@), !.ignored = @ \cup {e.worker}]
        ELSE IF e.kind = "contents_loaded"
        THEN display' = [display EXCEPT !.queue = Tail(@),
                                        !.file_list = Append(@, [worker |-> e.worker,
                                                                 item |-> "entries"])]
        ELSE display' = [display EXCEPT !.queue = Tail(@),
                                        !.file_list = <<[worker |-> e.worker, item |-> "Error"]>>]
  /\ UNCHANGED notDisplay

NextBrowser ==
  \/ \E path \in BrowserPaths : LoadDirectoryContents(path)
  \/ \E w \in 1..Len(display.workers) : WorkerCheck(w)
  \/ \E w \in 1..Len(display.workers) : WorkerEmit(w)
  \/ Deliver

SpecBrowser == InitBrowser /\ [][NextBrowser]_vars

\* ------------------------------------------------------------ the assistant's chat window
\* (src/aiAssistant/ai_assistant.py)
InitChat ==
  /\ ScannerUnused
  /\ mcp = NoMcp
  /\ display = NoDisplay
  /\ chat = NoChat
  /\ folder = NoFolder

\* send_message: the input is disabled and a ChatWorker starts with a copy of the history
SendMessage ==
  /\ chat.input_enabled
  /\ chat.sent < MaxMessages
  /\ chat' = [chat EXCEPT !.input_enabled = FALSE,
                          !.worker = [pc |-> "start", message_history |-> chat.message_history,
                                      tool_calls |-> <<>>],
                          !.running = @ + 1,
                          !.sent = @ + 1]
  /\ UNCHANGED notChat

\* process_message: the user message is appended and the language model is asked;
\* the request fails, or the reply is appended, with n tool calls
WorkerRequest ==
  /\ chat.worker.pc = "start"
  /\ LET asked == Append(chat.worker.message_history, Message("user", <<>>, 0))
     IN \/ chat' = [chat EXCEPT !.worker.message_history = asked, !.worker.pc = "done"]
        \/ \E n \in 0..MaxToolCalls :
             LET ids == [k \in 1..n |-> chat.next_id + k - 1]
             IN chat' = [chat EXCEPT
                           !.worker.message_history = Append(asked, Message("assistant", ids, 0)),
                           !.worker.tool_calls = ids,
                           !.worker.pc = IF n = 0 THEN "done" ELSE "tools",
                           !.next_id = @ + n]
  /\ UNCHANGED notChat

\* process_message: one iteration of "for tool_call in message.tool_calls";
\* json.loads raises on arguments that are not JSON, call_mcp_tool always returns a text
WorkerToolCall ==
  /\ chat.worker.pc = "tools"
  /\ chat.worker.tool_calls # <<>>
  /\ \E parsed \in BOOLEAN :
       IF parsed
       THEN chat' = [chat EXCEPT
                       !.worker.message_history =
                          Append(@, Message("tool", <<>>, Head(chat.worker.tool_calls))),
                       !.worker.tool_calls = Tail(@)]
       ELSE chat' = [chat EXCEPT !.worker.pc = "done"]
  /\ UNCHANGED notChat

\* process_message: "Get follow-up response"; the request fails or its reply is appended
WorkerFollowUp ==
  /\ chat.worker.pc = "tools"
  /\ chat.worker.tool_calls = <<>>
  /\ \E ok \in BOOLEAN :
       chat' = [chat EXCEPT
                  !.worker.message_history =
                     IF ok THEN Append(@, Message("assistant", <<>>, 0)) ELSE @,
                  !.worker.pc = "done"]
  /\ UNCHANGED notChat

\* on_processing_finished: the worker's history is adopted and the input is enabled again
ProcessingFinished ==
  /\ chat.worker.pc = "done"
  /\ chat' = [chat EXCEPT !.message_history = chat.worker.message_history,
                          !.input_enabled = TRUE,
                          !.worker = NoWorker,
                          !.running = @ - 1]
  /\ UNCHANGED notChat

NextChat ==
  \/ SendMessage
  \/ WorkerRequest
  \/ WorkerToolCall
  \/ WorkerFollowUp
  \/ ProcessingFinished

SpecChat == InitChat /\ [][NextChat]_vars

\* ------------------------------------------------------------ the folder-size builder
\* (src/dirscans/build_directory_json.py)
\* A directory argument is a sequence of characters: "/a_b" is <<"/", "a", "_", "b">>.
\* The directories /a/b, /a_b and /b exist; /a/b is also given with a trailing
\* separator, /b also as the relative path "b" (the working directory is "/").
DirectoryArgs ==
  {<<"/", "a", "/", "b">>, <<"/", "a", "/", "b", "/">>, <<"/", "a", "_", "b">>,
   <<"/", "b">>, <<"b">>}

\* datetime.now().strftime("%Y%m%d_%H%M%S") at the successive seconds of the clock
Timestamps ==
  <<"20250101_120000", "20250101_120001", "20250101_120002", "20250101_120003",
    "20250101_120004", "20250101_120005">>

\* args.directory.replace('/', '_').replace('\\', '_').replace(':', '_')
Sanitized(directory) ==
  [k \in 1..Len(directory) |-> IF directory[k] \in {"/", "\\", ":"} THEN "_" ELSE directory[k]]

\* os.path.abspath(args.directory) with the working directory "/"
AnalyzedDirectory(directory) ==
  LET abs == IF directory[1] = "/" THEN directory ELSE <<"/">> \o directory
  IN IF Len(abs) > 1 /\ abs[Len(abs)] = "/" THEN SubSeq(abs, 1, Len(abs) - 1) ELSE abs

\* timestamp + "_" + sanitized name + ".json"
OutputName(timestamp, directory) == <<timestamp, "_">> \o Sanitized(directory) \o <<".json">>

\* glob.glob(script_dir/"*_" + sanitized name + ".json") matches a file name
GlobMatches(name, directory) ==
  LET suffix == <<"_">> \o Sanitized(directory) \o <<".json">>
  IN Len(name) >= Len(suffix) /\ SubSeq(name, Len(name) - Len(suffix) + 1, Len(name)) = suffix

InitFolder ==
  /\ ScannerUnused
  /\ mcp = NoMcp
  /\ display = NoDisplay
  /\ chat = NoChat
  /\ folder = NoFolder

\* main: the existing files the pattern matches are removed, then the report is
\* written (open may fail with IOError); the clock may have advanced since the last run
BuildDirectoryJson(directory) ==
  /\ folder.runs < MaxBuilds
  /\ \E tick \in {0, 1}, ok \in BOOLEAN :
       LET timestamp   == Timestamps[folder.clock + tick]
           output_file == OutputName(timestamp, directory)
           kept        == {f \in folder.files : ~GlobMatches(f.name, directory)}
       IN folder' = [files |-> IF ok
                               THEN kept \cup {[name |-> output_file,
                                                analyzed_directory |-> AnalyzedDirectory(directory)]}
                               ELSE kept,
                     runs  |-> folder.runs + 1,
                     clock |-> folder.clock + tick,
                     last  |-> [directory |-> directory, ok |-> ok]]
  /\ UNCHANGED notFolder

NextFolder == \E directory \in DirectoryArgs : BuildDirectoryJson(directory)

SpecFolder == InitFolder /\ [][NextFolder]_vars

\* ============================================================ properties
\* the work list one uninterrupted scan of the tree computes
WorkList ==
  IF args.recursive
  THEN WalkEntries(args.directory, Abspath(args.directory), args.max_depth)
  ELSE FlatEntries(args.directory)

\* the file Entry one uninterrupted scan emits for the k-th path of work list W
ReferenceEntry(k, W) ==
  [scan_order |-> k,
   standard_metadata |-> get_standard_metadata(W[k]),
   extended_attributes |-> get_extended_attributes(W[k]),
   acl_info |-> get_acl_info(W[k]),
   lustre_metadata |-> IF args.lustre
                       THEN [present |-> TRUE, keys |-> get_lustre_metadata(W[k])]
                       ELSE NoLustre]

Finished == pc = "idle" /\ exitCode # None
AfterScan == pc \in {"json", "write", "db", "success", "end"}

\* C1 Resume equivalence: when an invocation was interrupted after k < N entries
\* and the command is invoked again with the same target and output, the document
\* it writes holds exactly the file Entries of one uninterrupted scan, keyed by path.
ResumeEquivalence ==
  (pc \in {"db", "success", "end"} /\ args.output /\ hist.interrupted)
    => LET W == WorkList
       IN hist.prevK < Len(W)
            => /\ outFile.state = "complete"
               /\ ToSet(outFile.doc.files) = {ReferenceEntry(k, W) : k \in 1..Len(W)}
               /\ PathsOf(outFile.doc.files) = ToSet(W)

ResumeEquivalenceWitness ==
  /\ pc = "end" /\ args.output /\ hist.interrupted
  /\ hist.prevK > 0 /\ hist.prevK < Len(entries)
  /\ outFile.state = "complete"
  /\ Len(outFile.doc.files) >= 2

\* C3 No re-scan on resume: no path whose Entry an earlier, interrupted invocation
\* had already produced has its collectors invoked again by a later invocation.
InvokedThisRun ==
  PathsOf(results.files) \cup (IF pc = "files" /\ col # "std" THEN {entries[LoopIndex]} ELSE {})

NoRescanOnResume == InvokedThisRun \cap hist.doneEarlier = {}

\* C5 Crash loss bound: when the process is stopped during the scan, every entry
\* whose collectors had all completed is durably recorded.
DurablePaths == IF outFile.state = "complete" THEN PathsOf(outFile.doc.files) ELSE {}

CrashLossBound ==
  (Finished /\ "Scan interrupted." \in stderr) => hist.doneEarlier \subseteq DurablePaths

\* C6 Provenance across resumes: the scan start time recorded by an invocation that
\* follows interrupted ones is the start time of the first invocation.
StartTimePreserved ==
  (results.scan_info.scan_time # None /\ hist.doneEarlier # {})
    => results.scan_info.scan_time = hist.firstStart

\* C7 Idempotent cleanup: a cleanup-only invocation with no checkpoint state
\* present succeeds without error.
CleanupOnlySucceeds ==
  (Finished /\ args.extra = "--cleanup") => exitCode = 0

\* C8 Exit behaviour: the exit status is non-zero when the target is missing or not
\* a directory, when the walk fails with an I/O error and when the scan is
\* interrupted; nothing else but a failed output write (so no collector failure)
\* makes it non-zero; the success message is printed only with exit status 0.
FatalMessages ==
  {"usage: unrecognized arguments", "Error: Directory does not exist", "Error: is not a directory",
   "Error scanning directory", "Scan interrupted.", "KeyboardInterrupt",
   "Error writing JSON", "Error writing to database"}

ExitBehaviour ==
  Finished =>
    /\ (~PathExists(args.directory) \/ ~IsDir(args.directory) => exitCode # 0)
    /\ ("Error scanning directory" \in stderr => exitCode # 0)
    /\ (IsDir(args.directory) /\ ~args.recursive /\ ~CanList(args.directory) /\ args.extra = "" => exitCode # 0)
    /\ (hist.signalled => exitCode # 0)
    /\ (exitCode # 0 => stderr \cap FatalMessages # {})
    /\ ("Scan completed successfully!" \in stderr => exitCode = 0)

\* C9 Determinism: two uninterrupted scans of the unchanged tree with the same
\* arguments compute the same ordered work list and the same entry counts,
\* whatever order the operating system lists the directories in.
Determinism ==
  (AfterScan /\ hist.full.valid)
    => /\ entries = hist.full.entries
       /\ results.scan_info.total_files = hist.full.total_files
       /\ results.scan_info.total_directories = hist.full.total_directories
       /\ Len(results.files) = hist.full.total_files

DeterminismWitness ==
  /\ pc = "end" /\ hist.full.valid
  /\ hist.full.order # osOrder
  /\ Len(entries) >= 3

\* C10 Processing order: the i-th emitted file Entry is the i-th work-list path, and
\* an invocation that follows an interrupted one processes the paths the earlier
\* one had not processed in the order of an uninterrupted scan.
EmittedPaths == [k \in 1..Len(results.files) |-> results.files[k].standard_metadata.path]

IsPrefix(a, b) == Len(a) <= Len(b) /\ SubSeq(b, 1, Len(a)) = a

Remaining(s) == SelectSeq(s, LAMBDA q : q \notin hist.doneEarlier)

ProcessingOrder ==
  (pc = "files" \/ AfterScan)
    => /\ \A k \in 1..Len(results.files) :
            /\ results.files[k].scan_order = k
            /\ results.files[k].standard_metadata.path = entries[k]
       /\ (hist.interrupted /\ col \in {"std", "none"}
             => IsPrefix(Remaining(EmittedPaths), Remaining(WorkList)))

ProcessingOrderWitness ==
  /\ pc = "end" /\ hist.interrupted
  /\ hist.prevK > 0
  /\ Len(Remaining(EmittedPaths)) >= 2

\* ------------------------------------------------------------ C11..C20
\* p lies below q: q, a separator and at least one more name
Under(p, q) == Len(q) < Len(p) /\ SubSeq(p, 1, Len(q)) = q /\ p[Len(q) + 1] = SEP

DirectoryPaths == {results.directories[k].standard_metadata.path : k \in 1..Len(results.directories)}

\* an Entry that holds every sub-record the configuration asks for
CompleteEntry(e) ==
  /\ e.standard_metadata.keys # {}
  /\ e.lustre_metadata.present = args.lustre

\* C11 Cancellation between entries: when an interruption arrives while the
\* collectors of an entry run, the scan stops only after all collectors of that
\* entry have completed, and no Entry lacking a sub-record is ever in the result.
CancellationBetweenEntries ==
  [][/\ (pc = "files" /\ pc' = "idle") => col = "std"
     /\ \A k \in 1..Len(results.files) : CompleteEntry(results.files[k])]_vars

\* C12 Depth bound: a recursive scan with max depth 1 of
\* root/{a.txt, sub/{b.txt, subsub/c.txt}} yields the Entries of a.txt and
\* sub/b.txt and the directory record of sub, and nothing for c.txt, for an
\* absolute and for a relative root.
DepthBound ==
  (AfterScan /\ args.recursive /\ args.max_depth = 1 /\ fsv.rootReadable /\ fsv.subReadable)
    => /\ Join(args.directory, "a.txt") \in PathsOf(results.files)
       /\ Join(Join(args.directory, "sub"), "b.txt") \in PathsOf(results.files)
       /\ Join(AbsRoot, "sub") \in DirectoryPaths
       /\ \A q \in PathsOf(results.files) : q[Len(q)] # "c.txt"

\* C13 Flat scan: a non-recursive scan yields exactly one file Entry per regular
\* file or symlink directly inside the directory, none for anything below its
\* subdirectories, and a session file count equal to the number of file Entries.
DirectLeaves ==
  {n \in NodeIds \ {"/", "root"} :
     Exists(n) /\ NodeTable[n].parent = "root" /\ NodeTable[n].kind \in {"file", "link"}}

FlatFiles ==
  /\ PathsOf(results.files) = {Join(args.directory, n) : n \in DirectLeaves}
  /\ Len(results.files) = Cardinality(DirectLeaves)
  /\ \A q \in PathsOf(results.files) : Len(q) = Len(args.directory) + 2
  /\ results.scan_info.total_files = Len(results.files)

SymlinkDir(q) == q[Len(q)] # SEP /\ IsLink(q) /\ IsDir(q)

NoDescentThroughSymlink ==
  (pc \in {"collect", "dirs", "files"} \/ AfterScan)
    => /\ \A q \in ToSet(entries) \cup DirectoryPaths :
            \A k \in 1..(Len(q) - 1) : ~(SymlinkDir(SubSeq(q, 1, k)) /\ Under(q, SubSeq(q, 1, k)))
       /\ (args.recursive /\ fsv.lnk = "sub" /\ fsv.rootReadable)
            => Cardinality({k \in 1..Len(entries) : entries[k] = Join(args.directory, "lnk")}) = 1

\* C15 Permission errors during the walk: when a subdirectory of the target
\* cannot be listed in recursive mode, the scan still completes with the entries
\* of the readable directories, skips only that subtree and records the error
\* in its output.
PermissionErrorRecorded ==
  (AfterScan /\ args.recursive /\ args.max_depth = None /\ ~fsv.subReadable)
    => /\ Join(args.directory, "a.txt") \in PathsOf(results.files)
       /\ \A q \in PathsOf(results.files) : ~Under(q, Join(args.directory, "sub"))
       /\ \/ Join(AbsRoot, "sub") \in DirectoryPaths
          \/ Join(args.directory, "sub") \in PathsOf(results.files)
          \/ \E k \in 1..Len(results.directories) : results.directories[k].standard_metadata.error
          \/ \E k \in 1..Len(results.files) : results.files[k].standard_metadata.error

\* C16 Errors are data: every work-list path gets exactly one file Entry, whatever
\* collectors fail for it; when the standard-attributes collector fails, the Entry
\* holds the path and an error string; and a collector failure never ends the
\* scan: the file loop is left only when it is done or the scan is interrupted.
StatFails(q) == Resolve(q, TRUE) = NoNode

EntriesFaithful ==
  (pc = "files" \/ AfterScan)
    => /\ Len(results.files) <= Len(entries)
       /\ \A k \in 1..Len(results.files) :
            LET md == results.files[k].standard_metadata
            IN /\ md.path = entries[k]
               /\ md.error = StatFails(entries[k])
               /\ md.error => md.keys = {"path", "basename", "error"}
       /\ AfterScan => Len(results.files) = Len(entries)

ErrorsAreData ==
  [][/\ EntriesFaithful
     /\ (pc = "files" /\ pc' # "files")
          => \/ pc' = "json" /\ Len(results'.files) = Len(entries)
             \/ pc' = "idle" /\ "Scan interrupted." \in stderr']_vars

ErrorsAreDataWitness ==
  /\ pc = "end" /\ ~fsv.tools /\ fsv.lnk = "dangling"
  /\ \E k \in 1..(Len(results.files) - 1) :
       /\ results.files[k].standard_metadata.error
       /\ ~results.files[k + 1].standard_metadata.error

\* C17 Best-effort optionality: with the layout, ACL and extended-attribute tools
\* all unavailable, every Entry holds the standard attributes of its path, its
\* optional sub-records hold no data, and the scan completes successfully.
\* The attributes os.stat reports for a path of this tree, told by its last name:
StatTarget(q) ==
  LET n == q[Len(q)] IN IF n = "lnk" THEN (IF fsv.lnk = "sub" THEN "sub" ELSE NoNode) ELSE n

ExpectedType(n) ==
  IF n \in {"a.txt", "b.txt", "c.txt", "file.bin"} THEN "regular" ELSE "directory"

BestEffortOptionality ==
  ~fsv.tools
    => /\ (pc = "files" \/ AfterScan)
            => \A k \in 1..Len(results.files) :
                 LET e == results.files[k]
                     n == StatTarget(entries[k])
                 IN /\ e.extended_attributes = {}
                    /\ e.acl_info = {}
                    /\ e.lustre_metadata.keys = {}
                    /\ e.standard_metadata.path = entries[k]
                    /\ IF n = NoNode
                       THEN e.standard_metadata.error
                       ELSE /\ ~e.standard_metadata.error
                            /\ e.standard_metadata.type = ExpectedType(n)
                            /\ e.standard_metadata.size_bytes = NodeTable[n].size
                            /\ "permissions" \in e.standard_metadata.keys
       /\ (Finished /\ ~hist.signalled /\ "Error writing JSON" \notin stderr
              /\ "Error writing to database" \notin stderr)
            => (exitCode = 0 /\ "Scan completed successfully!" \in stderr)

BestEffortOptionalityWitness ==
  /\ pc = "end" /\ ~fsv.tools /\ args.lustre
  /\ Len(results.files) >= 2
  /\ \A k \in 1..Len(results.files) :
       /\ results.files[k].lustre_metadata.present
       /\ results.files[k].lustre_metadata.keys = {}
       /\ results.files[k].extended_attributes = {}

\* C18 Type classification: every Entry has exactly one of the eight types, and a
\* work-list path that is itself a symlink (a dangling one too) is classified as
\* symlink and holds its symlink target.
FileTypes ==
  {"regular", "directory", "symlink", "block_device", "character_device", "fifo", "socket",
   "unknown"}

TypeClassification ==
  (pc = "files" \/ AfterScan)
    => \A k \in 1..Len(results.files) :
         LET md == results.files[k].standard_metadata
         IN /\ md.type \in FileTypes
            /\ IsLink(md.path) => (md.type = "symlink" /\ "symlink_target" \in md.keys)

\* C19 Checksums: an Entry holds content checksums exactly when it is a regular
\* file of non-zero size below 100 MiB; a file of 100 MiB or more has an Entry
\* without checksums and without an error.
Checksums ==
  (pc = "files" \/ AfterScan)
    => \A k \in 1..Len(results.files) :
         LET md == results.files[k].standard_metadata
         IN /\ ("checksums" \in md.keys)
                 <=> (md.type = "regular" /\ md.size_bytes > 0 /\ md.size_bytes < 100 * 1024 * 1024)
            /\ (md.type = "regular" /\ md.size_bytes >= 100 * 1024 * 1024) => ~md.error

\* C20 Layout collection is gated: when Lustre metadata collection is not enabled,
\* no lfs command is run, no Entry (in memory or in the written document) holds a
\* lustre_metadata sub-record, and the database has no lustre_metadata table and
\* no row of it.
LayoutGated ==
  ~args.lustre
    => /\ invoked \cap (LustreCommands \cup {"lfs --version"}) = {}
       /\ ~cur.lustre_metadata.present
       /\ \A k \in 1..Len(results.files) : ~results.files[k].lustre_metadata.present
       /\ \A k \in 1..Len(outFile.doc.files) : ~outFile.doc.files[k].lustre_metadata.present
       /\ "lustre_metadata" \notin dbFile.tables
       /\ dbFile.lustre_metadata = <<>>

LayoutGatedWitness ==
  /\ pc = "end" /\ ~args.lustre /\ args.db /\ fsv.tools
  /\ Len(results.files) >= 2
  /\ Len(dbFile.scan_info) >= 1 /\ "files" \in dbFile.tables
  /\ XattrCommands \subseteq invoked

\* ============================================================ C21..C30
\* C21: with every external tool hanging, a scan that has begun leaves the scan
\* loop (it finishes, or is ended by a signal), and each Entry it appended
\* lacks the sub-records of the tools
HungToolCannotHang ==
  /\ (InScan ~> ~InScan)
  /\ [](\A k \in 1..Len(results.files) :
          /\ results.files[k].extended_attributes = {}
          /\ results.files[k].acl_info = {}
          /\ results.files[k].lustre_metadata.keys = {})

HungToolCannotHangWitness ==
  /\ ~fsv.tools
  /\ pc = "end"
  /\ args.lustre
  /\ Len(results.files) >= 2
  /\ results.scan_info.total_files = Len(entries)

\* C22: at every instant the file at the output path is absent or holds a
\* complete document (the previous one or the new one), never a truncated one
AtomicWrite == outFile.state \in {"absent", "complete"}

\* the rows of a table that one scan inserted
RowsOf(table, scan_id) == {table[k] : k \in {j \in 1..Len(table) : table[j].scan_id = scan_id}}

\* C23: every directory row refers to a scan_info row, and every directory row whose
\* parent directory has a row of the same scan was inserted after that row and
\* carries its id as parent_directory_id
ParentBeforeChild ==
  \A k \in 1..Len(dbFile.directories) :
     LET r == dbFile.directories[k]
     IN /\ r.scan_id \in 1..Len(dbFile.scan_info)
        /\ \A q \in RowsOf(dbFile.directories, r.scan_id) :
              (q.path = Dirname(r.path) /\ q.path # r.path) =>
                 (q.id < r.id /\ r.parent_directory_id = q.id)

ParentBeforeChildWitness ==
  \E k \in 1..Len(dbFile.directories) :
     /\ dbFile.directories[k].parent_directory_id # None
     /\ Len(dbFile.directories[k].path) > 4

\* C24: every file Entry's path is absolute and unique within the scan, and every
\* file row whose containing directory has a row of the same scan carries that
\* row's id as directory_id and has exactly one directory_files row
FileDirectoryIntegrity ==
  /\ \A k \in 1..Len(results.files) :
        /\ IsAbs(results.files[k].standard_metadata.path)
        /\ \A j \in 1..Len(results.files) :
              results.files[j].standard_metadata.path = results.files[k].standard_metadata.path
                 => j = k
  /\ \A k \in 1..Len(dbFile.files) :
        LET f == dbFile.files[k]
        IN /\ IsAbs(f.path)
           /\ \A d \in RowsOf(dbFile.directories, f.scan_id) :
                 d.path = Dirname(Abspath(f.path)) =>
                    /\ f.directory_id = d.id
                    /\ Cardinality({j \in 1..Len(dbFile.directory_files) :
                                      /\ dbFile.directory_files[j].file_id = f.id
                                      /\ dbFile.directory_files[j].directory_id = d.id}) = 1

\* the database is consistent: each row of directories and files names an
\* existing scan, and each reference to a directory names a directory row of the same scan
DbConsistent ==
  /\ \A k \in 1..Len(dbFile.directories) :
        LET r == dbFile.directories[k]
        IN /\ r.id = k
           /\ r.scan_id \in 1..Len(dbFile.scan_info)
           /\ r.parent_directory_id # None =>
                 \E q \in RowsOf(dbFile.directories, r.scan_id) : q.id = r.parent_directory_id
  /\ \A k \in 1..Len(dbFile.files) :
        LET f == dbFile.files[k]
        IN /\ f.id = k
           /\ f.scan_id \in 1..Len(dbFile.scan_info)
           /\ f.directory_id # None =>
                 \E q \in RowsOf(dbFile.directories, f.scan_id) : q.id = f.directory_id

\* C27: the database stays consistent, and a run that writes into it leaves the
\* rows of earlier runs as they were, adds one scan_info row and gives each row it
\* adds the id of that scan_info row
MultiScanIntegrity ==
  [][/\ DbConsistent
     /\ dbFile' # dbFile =>
          /\ Len(dbFile'.scan_info) = Len(dbFile.scan_info) + 1
          /\ IsPrefix(dbFile.scan_info, dbFile'.scan_info)
          /\ IsPrefix(dbFile.directories, dbFile'.directories)
          /\ IsPrefix(dbFile.files, dbFile'.files)
          /\ IsPrefix(dbFile.directory_files, dbFile'.directory_files)
          /\ \A k \in (Len(dbFile.directories) + 1)..Len(dbFile'.directories) :
                dbFile'.directories[k].scan_id = Len(dbFile'.scan_info)
          /\ \A k \in (Len(dbFile.files) + 1)..Len(dbFile'.files) :
                dbFile'.files[k].scan_id = Len(dbFile'.scan_info)]_vars

MultiScanIntegrityWitness ==
  /\ Len(dbFile.scan_info) = 2
  /\ \E k \in 1..Len(dbFile.files) :
        dbFile.files[k].scan_id = 2 /\ dbFile.files[k].directory_id # None
  /\ \E k \in 1..Len(dbFile.directories) :
        dbFile.directories[k].scan_id = 2 /\ dbFile.directories[k].parent_directory_id # None
  /\ \E k \in 1..Len(dbFile.directories) : dbFile.directories[k].scan_id = 1

\* C26: the two walks of a scan come to an end, also on a tree whose symlink
\* leads to one of its own ancestors, and leave a finite work list: while
\* directories remain to be visited the walks have visited fewer than
\* MaxWalkSteps, and the work list is no longer than the visits allow
WalkTerminates ==
  /\ (walk.phase \in {"entries", "collect"} /\ walk.stack # <<>>) => walk.steps < MaxWalkSteps
  /\ Len(walk.entries) <= Cardinality(NodeIds) * walk.steps

\* the walks have ended on the tree whose symlink leads back to /root; the work
\* list and the directories are those the scan computes, and the work list ends
\* the chain of links with the path the kernel refuses to resolve
WalkTerminatesWitness ==
  /\ walk.phase = "done"
  /\ fsv.lnk = "root"
  /\ args.max_depth = None
  /\ walk.entries = WalkEntries(args.directory, Abspath(args.directory), args.max_depth)
  /\ SortedPaths(walk.directories) = collect_directory_tree(args.directory, TRUE, args.max_depth)
  /\ \E k \in 1..Len(walk.entries) :
        /\ Cardinality({j \in 1..Len(walk.entries[k]) : walk.entries[k][j] = "lnk"}) = MaxSymlinks + 1
        /\ get_standard_metadata(walk.entries[k]).error

\* the number of rows the query result holds
TotalRows == Len(mcp.results.rows)

Min(a, b) == IF a < b THEN a ELSE b

\* the answer is the JSON document with min(T, 100) rows, the row count T and a
\* truncation note exactly when T > 100
LimitedAnswer ==
  /\ mcp.response.kind = "json"
  /\ mcp.response.results = Take(mcp.results.rows, Min(TotalRows, RowLimit))
  /\ Len(mcp.response.results) = Min(TotalRows, RowLimit)
  /\ mcp.response.row_count = TotalRows
  /\ mcp.response.note <=> (TotalRows > RowLimit)

\* C25 as stated: every query result of T rows is answered with min(T, 100) rows,
\* the row count T and a truncation note exactly when T > 100
QueryRowLimitAlways == mcp.response # NoResponse => LimitedAnswer

\* C25: a query result of T >= 1 rows whose returned rows JSON can encode is
\* answered with min(T, 100) rows, the row count T and a truncation note exactly
\* when T > 100; an empty result and rows that cannot be encoded are answered with
\* a plain text that carries no row count
QueryRowLimit ==
  mcp.response # NoResponse =>
     IF TotalRows >= 1 /\ mcp.results.encodable
     THEN LimitedAnswer
     ELSE mcp.response.kind = "text" /\ mcp.response.row_count = None

QueryRowLimitWitness ==
  /\ TotalRows > RowLimit
  /\ mcp.response.kind = "json"
  /\ mcp.response.note
  /\ Len(mcp.response.results) = RowLimit

\* the output files that report on directory d
OutputsFor(files, d) == {f \in files : f.analyzed_directory = d}

\* C30: a run of the builder for directory D leaves the output files of every
\* other directory in place, and after a successful run exactly one output file for D exists
FolderScanReplacement ==
  [][folder'.runs # folder.runs =>
       LET D == AnalyzedDirectory(folder'.last.directory)
       IN /\ \A f \in folder.files : f.analyzed_directory # D => f \in folder'.files
          /\ folder'.last.ok => Cardinality(OutputsFor(folder'.files, D)) = 1]_vars

\* every assistant message with tool calls is followed by one tool message per
\* call, in the order of the calls
ToolCallsAnswered(h) ==
  \A i \in 1..Len(h) :
     h[i].role = "assistant" =>
        \A k \in 1..Len(h[i].tool_calls) :
           /\ i + k <= Len(h)
           /\ h[i + k].role = "tool"
           /\ h[i + k].tool_call_id = h[i].tool_calls[k]

\* C29: the history the chat window has adopted starts with the system prompt
\* and answers every tool call of every assistant message, and at most one
\* worker runs at a time
ChatHistoryWellFormed ==
  /\ chat.message_history[1].role = "system"
  /\ ToolCallsAnswered(chat.message_history)
  /\ chat.running <= 1

\* the workers whose signals are connected to the display
Connected == {w \in 1..Len(display.workers) : display.workers[w].connected}

\* C28: every item of the file list comes from the worker of the directory
\* loaded last, never from a superseded one, and at most one worker is
\* connected to the display
NoStaleListing ==
  /\ \A k \in 1..Len(display.file_list) : display.file_list[k].worker = display.worker
  /\ Cardinality(Connected) <= 1
  /\ Connected \subseteq {display.worker}

\* a result of a superseded worker was pending and has been dropped, and the
\* list shows the entries of the current worker
NoStaleListingWitness ==
  /\ display.ignored # {}
  /\ display.worker \notin display.ignored
  /\ \E k \in 1..Len(display.file_list) :
        display.file_list[k] = [worker |-> display.worker, item |-> "entries"]

====
